---- MODULE Spec2Model ----
(***************************************************************************)
(* The /create command of the CLI, in its two variants:                    *)
(*   - the cloning variant (src/unnamed/part_000): validate the name,      *)
(*     locate the template, check the destination, clone the template tree *)
(*     with token rewriting, clean up on failure;                          *)
(*   - the generator-driven variant                                        *)
(*     (src/packages/cli/src/ui/commands/createCommand.ts): validate the   *)
(*     name, probe six descriptor files, return a prompt for phase one or  *)
(*     phase two.                                                          *)
(* Strings are sequences of one-character strings, a path is a sequence of *)
(* name segments, and the filesystem is a function from the paths that     *)
(* exist to their nodes.  Symbolic links are not modelled.                 *)
(***************************************************************************)
EXTENDS Integers, Sequences, FiniteSets, TLC

(***************************************************************************)
(* Bounds of the model.                                                    *)
(***************************************************************************)
\* longest argument string enumerated for the name validator
MaxLen == 3
\* longest path (in segments) at which fs.mkdirSync and fs.writeFileSync
\* still create an entry; stands for PATH_MAX
MaxDepth == 5

(***************************************************************************)
(* Characters and string constants of the source.                          *)
(***************************************************************************)
Lower ==
    {"a","b","c","d","e","f","g","h","i","j","k","l","m",
     "n","o","p","q","r","s","t","u","v","w","x","y","z"}
Digit ==
    {"0","1","2","3","4","5","6","7","8","9"}
\* the white space of String.prototype.trim and of the regular expression \s
WhiteSpace ==
    {" ", "\t", "\n", "\r"}

PLACEHOLDER ==
    <<"s","n","s","-","d","e","m","o">>
PkgOld ==
    <<"c","o","m",".","x","i","a","o","h","o","n","g","s","h","u",".","s","n","s",".","d","e","m","o">>
PkgPrefix ==
    <<"c","o","m",".","x","i","a","o","h","o","n","g","s","h","u",".","s","n","s",".">>
ArtOpen ==
    <<"<","a","r","t","i","f","a","c","t","I","d",">">>
ArtClose ==
    <<"<","/","a","r","t","i","f","a","c","t","I","d",">">>
NameOpen ==
    <<"<","n","a","m","e",">">>
NameClose ==
    <<"<","/","n","a","m","e",">">>
ModOpen ==
    <<"<","m","o","d","u","l","e",">">>
ModClose ==
    <<"<","/","m","o","d","u","l","e",">">>
ParentSuffix ==
    <<"-","p","a","r","e","n","t">>
Dash ==
    <<"-">>
ProjVar ==
    <<"$","{","p","r","o","j","e","c","t","N","a","m","e","}">>
SpringEq ==
    <<"s","p","r","i","n","g",".","a","p","p","l","i","c","a","t","i","o","n",".","n","a","m","e","=">>
SpringColon ==
    <<"s","p","r","i","n","g",".","a","p","p","l","i","c","a","t","i","o","n",".","n","a","m","e",":">>
Space ==
    <<" ">>

(***************************************************************************)
(* String.prototype.trim, String.prototype.replace with a /g pattern.      *)
(***************************************************************************)
RECURSIVE TrimLeft(_)
TrimLeft(s) ==
    IF s # <<>> /\ Head(s) \in WhiteSpace THEN TrimLeft(Tail(s)) ELSE s

RECURSIVE TrimRight(_)
TrimRight(s) ==
    IF s # <<>> /\ s[Len(s)] \in WhiteSpace
    THEN TrimRight(SubSeq(s, 1, Len(s) - 1))
    ELSE s

\* args.trim()
Trim(s) ==
    TrimRight(TrimLeft(s))

\* the literal pat occurs in s at position i
MatchAt(s, i, pat) ==
    /\ i + Len(pat) - 1 <= Len(s)
    /\ \A k \in 1..Len(pat) : s[i + k - 1] = pat[k]

\* the least element of a non-empty set of positions
MinOf(S) ==
    CHOOSE j \in S : \A k \in S : j <= k

\* s.replace(/pat/g, rep) for a literal pattern, scanning from position i:
\* leftmost matches, not overlapping, the replacement is not scanned again
RECURSIVE ReplaceLitFrom(_, _, _, _)
ReplaceLitFrom(s, i, pat, rep) ==
    LET hits == {j \in i..Len(s) : MatchAt(s, j, pat)}
    IN  IF hits = {} THEN SubSeq(s, i, Len(s))
        ELSE LET j == MinOf(hits)
             IN  SubSeq(s, i, j - 1) \o rep
                 \o ReplaceLitFrom(s, j + Len(pat), pat, rep)

ReplaceLit(s, pat, rep) ==
    ReplaceLitFrom(s, 1, pat, rep)

\* the first position at or after i that holds "<" (or Len(s) + 1): where a
\* greedy [^<]+ starting at i stops
RunEnd(s, i) ==
    MinOf({j \in i..Len(s) : s[j] = "<"} \cup {Len(s) + 1})

\* /pre([^<]+)suf/ matches at position j; every suf of the source starts
\* with "<", so the greedy group never gives characters back
CapMatchAt(s, j, pre, suf) ==
    /\ MatchAt(s, j, pre)
    /\ RunEnd(s, j + Len(pre)) > j + Len(pre)
    /\ MatchAt(s, RunEnd(s, j + Len(pre)), suf)

\* s.replace(/pre([^<]+)suf/g, `${repPre}$1${repSuf}`)
RECURSIVE ReplaceCapFrom(_, _, _, _, _, _)
ReplaceCapFrom(s, i, pre, suf, repPre, repSuf) ==
    LET hits == {j \in i..Len(s) : CapMatchAt(s, j, pre, suf)}
    IN  IF hits = {} THEN SubSeq(s, i, Len(s))
        ELSE LET j == MinOf(hits)
                 b == j + Len(pre)
                 e == RunEnd(s, b)
             IN  SubSeq(s, i, j - 1) \o repPre \o SubSeq(s, b, e - 1) \o repSuf
                 \o ReplaceCapFrom(s, e + Len(suf), pre, suf, repPre, repSuf)

ReplaceCap(s, pre, suf, repPre, repSuf) ==
    ReplaceCapFrom(s, 1, pre, suf, repPre, repSuf)

\* the first position at or after i that holds no white space
SpaceEnd(s, i) ==
    MinOf({j \in i..Len(s) : s[j] \notin WhiteSpace} \cup {Len(s) + 1})

\* s.replace(/pre\s*suf/g, rep); suf starts with a letter
RECURSIVE ReplaceWsFrom(_, _, _, _, _)
ReplaceWsFrom(s, i, pre, suf, rep) ==
    LET hits == {j \in i..Len(s) :
                    MatchAt(s, j, pre) /\ MatchAt(s, SpaceEnd(s, j + Len(pre)), suf)}
    IN  IF hits = {} THEN SubSeq(s, i, Len(s))
        ELSE LET j == MinOf(hits)
                 e == SpaceEnd(s, j + Len(pre))
             IN  SubSeq(s, i, j - 1) \o rep
                 \o ReplaceWsFrom(s, e + Len(suf), pre, suf, rep)

ReplaceWs(s, pre, suf, rep) ==
    ReplaceWsFrom(s, 1, pre, suf, rep)

(***************************************************************************)
(* Name Validator.                                                         *)
(***************************************************************************)
\* a faulty variant of the validator: the alternative ^[a-z]$ is lost
validateProjectNameNoSingle(name) ==
    /\ Len(name) >= 2
    /\ name[1] \in Lower
    /\ \A k \in 2..(Len(name) - 1) : name[k] \in Lower \cup Digit \cup {"-"}
    /\ name[Len(name)] \in Lower \cup Digit

\* /^[a-z][a-z0-9-]*[a-z0-9]$|^[a-z]$/.test(name), cloning variant
validateProjectName(name) ==
    \/ /\ Len(name) >= 2
       /\ name[1] \in Lower
       /\ \A k \in 2..(Len(name) - 1) : name[k] \in Lower \cup Digit \cup {"-"}
       /\ name[Len(name)] \in Lower \cup Digit
    \/ /\ Len(name) = 1
       /\ name[1] \in Lower

\* the same test, generator-driven variant
validateProjectNameGen(name) ==
    \/ /\ Len(name) >= 2
       /\ name[1] \in Lower
       /\ \A k \in 2..(Len(name) - 1) : name[k] \in Lower \cup Digit \cup {"-"}
       /\ name[Len(name)] \in Lower \cup Digit
    \/ /\ Len(name) = 1
       /\ name[1] \in Lower

(***************************************************************************)
(* Token Rewriter.                                                         *)
(***************************************************************************)
\* a faulty variant of the collapsed name: the pattern has lost its g flag,
\* and only the first hyphen goes
CleanNameFirstHyphen(newName) ==
    LET hits == {j \in 1..Len(newName) : newName[j] = "-"}
    IN  IF hits = {} THEN newName
        ELSE SubSeq(newName, 1, MinOf(hits) - 1)
             \o SubSeq(newName, MinOf(hits) + 1, Len(newName))

\* newName.replace(/-/g, '')
CleanName(newName) ==
    ReplaceLit(newName, Dash, <<>>)

\* the eleven replacements of replaceProjectNames, in the order of the source
Rule1(s, n) ==
    ReplaceLit(s, PkgOld, PkgPrefix \o CleanName(n))
Rule2(s, n) ==
    ReplaceLit(s, ArtOpen \o PLACEHOLDER \o ParentSuffix \o ArtClose,
               ArtOpen \o n \o ParentSuffix \o ArtClose)
Rule3(s, n) ==
    ReplaceCap(s, ArtOpen \o PLACEHOLDER \o Dash, ArtClose,
               ArtOpen \o n \o Dash, ArtClose)
Rule4(s, n) ==
    ReplaceLit(s, ArtOpen \o PLACEHOLDER \o ArtClose, ArtOpen \o n \o ArtClose)
Rule5(s, n) ==
    ReplaceLit(s, NameOpen \o PLACEHOLDER \o NameClose, NameOpen \o n \o NameClose)
Rule6(s, n) ==
    ReplaceCap(s, NameOpen \o PLACEHOLDER \o Dash, NameClose,
               NameOpen \o n \o Dash, NameClose)
Rule7(s, n) ==
    ReplaceCap(s, ModOpen \o PLACEHOLDER \o Dash, ModClose,
               ModOpen \o n \o Dash, ModClose)
Rule8(s, n) ==
    ReplaceCap(s, ArtOpen \o ProjVar \o Dash, ArtClose,
               ArtOpen \o n \o Dash, ArtClose)
Rule9(s, n) ==
    ReplaceLit(s, SpringEq \o PLACEHOLDER, SpringEq \o n)
\* a faulty variant of the tenth rule: the pattern has lost its value
Rule10AnyValue(s, n) ==
    ReplaceLit(s, SpringColon, SpringColon \o Space \o n)
Rule10(s, n) ==
    ReplaceWs(s, SpringColon, PLACEHOLDER, SpringColon \o Space \o n)
Rule11(s, n) ==
    ReplaceLit(s, PLACEHOLDER, n)

\* replaceProjectNames(content, oldName, newName); oldName is not used
replaceProjectNames(content, oldName, newName) ==
    Rule11(Rule10(Rule9(Rule8(Rule7(Rule6(Rule5(Rule4(Rule3(Rule2(Rule1(
        content, newName), newName), newName), newName), newName), newName),
        newName), newName), newName), newName), newName)

\* item.replace(/sns-demo/g, newName) of copyAndReplaceDir
RewriteItemName(item, newName) ==
    ReplaceLit(item, PLACEHOLDER, newName)

(***************************************************************************)
(* Paths (path.join, path.dirname) and the filesystem (module fs).         *)
(***************************************************************************)
TEMPLATE ==
    <<"t","e","m","p","l","a","t","e">>
LIB ==
    <<"l","i","b">>
POMXML ==
    <<"p","o","m",".","x","m","l">>
APPJAVA ==
    <<"A","p","p","l","i","c","a","t","i","o","n",".","j","a","v","a">>
README ==
    <<"R","E","A","D","M","E",".","m","d">>
GITIGNORE ==
    <<".","g","i","t","i","g","n","o","r","e">>
SfxApp ==
    <<"-","a","p","p">>
SfxDomain ==
    <<"-","d","o","m","a","i","n">>
SfxInfra ==
    <<"-","i","n","f","r","a","s","t","r","u","c","t","u","r","e">>
SfxCommon ==
    <<"-","c","o","m","m","o","n">>
SfxStart ==
    <<"-","s","t","a","r","t">>
DotStart ==
    <<".","s","t","a","r","t">>
SrcDir ==
    <<"s","r","c">>
MainDir ==
    <<"m","a","i","n">>
JavaDir ==
    <<"j","a","v","a">>
ComDir ==
    <<"c","o","m">>
XhsDir ==
    <<"x","i","a","o","h","o","n","g","s","h","u">>
SnsDir ==
    <<"s","n","s">>
StartDir ==
    <<"s","t","a","r","t">>

\* path.join(p, name)
Join(p, name) ==
    Append(p, name)

\* path.join(p, '..'), path.dirname(p): the root is its own parent
Parent(p) ==
    IF p = <<>> THEN <<>> ELSE SubSeq(p, 1, Len(p) - 1)

\* p and the paths above it
Prefixes(p) ==
    {SubSeq(p, 1, k) : k \in 0..Len(p)}

\* q is p or lies below p
Under(q, p) ==
    Len(q) >= Len(p) /\ SubSeq(q, 1, Len(p)) = p

DirNode ==
    [kind |-> "dir", content |-> <<>>]
OtherNode ==
    [kind |-> "other", content |-> <<>>]
FileNode(c) ==
    [kind |-> "file", content |-> c]

\* fs.existsSync(p): true for whatever is at p, and it never throws
existsSync(f, p) ==
    p \in DOMAIN f

\* fs.mkdirSync(p, {recursive: true}) succeeds: the path is not too long and
\* nothing on the way, nor at p, is something else than a directory
MkdirOk(f, p) ==
    /\ Len(p) <= MaxDepth
    /\ \A q \in Prefixes(p) : q \in DOMAIN f => f[q].kind = "dir"

\* the filesystem after a successful fs.mkdirSync(p, {recursive: true})
mkdirSync(f, p) ==
    [q \in DOMAIN f \cup Prefixes(p) |-> IF q \in DOMAIN f THEN f[q] ELSE DirNode]

\* fs.readdirSync(p) succeeds
ReaddirOk(f, p) ==
    p \in DOMAIN f /\ f[p].kind = "dir"

\* the names fs.readdirSync(p) returns
readdirSync(f, p) ==
    {q[Len(q)] : q \in {r \in DOMAIN f : Len(r) = Len(p) + 1 /\ Under(r, p)}}

\* fs.statSync(p) succeeds
StatOk(f, p) ==
    p \in DOMAIN f

\* fs.readFileSync(p, 'utf8') succeeds
ReadOk(f, p) ==
    p \in DOMAIN f /\ f[p].kind = "file"

\* fs.writeFileSync(p, c, 'utf8') succeeds: the directory is there and p is
\* absent or a regular file
WriteOk(f, p) ==
    /\ Len(p) <= MaxDepth
    /\ p # <<>>
    /\ Parent(p) \in DOMAIN f /\ f[Parent(p)].kind = "dir"
    /\ p \in DOMAIN f => f[p].kind = "file"

\* the filesystem after a successful fs.writeFileSync(p, c, 'utf8')
writeFileSync(f, p, c) ==
    [q \in DOMAIN f \cup {p} |-> IF q = p THEN FileNode(c) ELSE f[q]]

\* the filesystem without the paths of R
Without(f, R) ==
    [q \in DOMAIN f \ R |-> f[q]]

\* the filesystem after a successful fs.rmSync(p, {recursive: true, force: true})
rmSync(f, p) ==
    Without(f, {q \in DOMAIN f : Under(q, p)})

\* what a failed fs.rmSync(p, {recursive: true, force: true}) may have removed:
\* entries below p, each with everything below it; p itself stays
PartialRemovals(f, p) ==
    {R \in SUBSET {q \in DOMAIN f : Under(q, p) /\ q # p} :
        \A q \in R : \A r \in DOMAIN f : Under(r, q) => r \in R}

\* the tree below p: relative path -> node
Subtree(f, p) ==
    [rel \in {SubSeq(q, Len(p) + 1, Len(q)) : q \in {r \in DOMAIN f : Under(r, p)}}
        |-> f[p \o rel]]

(***************************************************************************)
(* The environment of an invocation: where the program is installed, the   *)
(* arguments, the template trees and the working directories tried.        *)
(***************************************************************************)
NameW ==
    <<"w">>
NameO ==
    <<"o">>
NameB ==
    <<"b">>
NameN ==
    <<"n">>
NameBin ==
    <<"b","i","n">>
NameGone ==
    <<"g","o","n","e">>
Zoo ==
    <<"z","o","o">>
ArgAB ==
    <<" ","a","-","b","\n">>
ArgBad ==
    <<"Z","o","o">>
ArgUnder ==
    <<"a","_","b">>
ModuleApp ==
    <<"<","m","o","d","u","l","e",">","s","n","s","-","d","e","m","o","-","a","p","p","<","/","m","o","d","u","l","e",">">>
JavaContent ==
    <<"p","a","c","k","a","g","e"," ","c","o","m",".","x","i","a","o","h","o","n","g","s","h","u",".","s","n","s",".","d","e","m","o",".","a","p","p",";">>
ContentX ==
    <<"x"," ","s","n","s","-","d","e","m","o">>
ContentY ==
    <<"y">>
ZooA ==
    <<"z","o","o","-","a">>
DemoA ==
    <<"s","n","s","-","d","e","m","o","-","a">>
DemoApp ==
    <<"s","n","s","-","d","e","m","o","-","a","p","p">>
AJava ==
    <<"A",".","j","a","v","a">>
Keep ==
    <<"k","e","e","p">>
Fifo ==
    <<"f","i","f","o">>
Empty ==
    <<"e","m","p","t","y">>
\* the second argument of copyAndReplaceDir in the action: 'demo'
OldNameArg ==
    <<"d","e","m","o">>

\* __dirname of the module
Dirname ==
    <<NameO, NameB>>
\* path.dirname(process.argv[0])
ExecDir ==
    <<NameN, NameBin>>

\* the command arguments tried: three valid names (one with white space
\* around it, one equal to the placeholder) and three invalid ones
ArgSet ==
    {Zoo, ArgAB, PLACEHOLDER, <<>>, ArgBad, ArgUnder}

\* template trees: relative path -> node
TreeA ==
    (<<>> :> DirNode) @@ (<<POMXML>> :> FileNode(ModuleApp))
    @@ (<<DemoApp>> :> DirNode) @@ (<<DemoApp, AJava>> :> FileNode(JavaContent))
\* two entries whose names are rewritten to the same name for the target zoo
TreeB ==
    (<<>> :> DirNode) @@ (<<DemoA>> :> FileNode(ContentX))
    @@ (<<ZooA>> :> FileNode(ContentY))
\* an entry that is neither a file nor a directory, and an empty directory
TreeC ==
    (<<>> :> DirNode) @@ (<<Fifo>> :> OtherNode) @@ (<<Empty>> :> DirNode)
    @@ (<<README>> :> FileNode(ContentX))
\* a single file
TreeD ==
    (<<>> :> DirNode) @@ (<<README>> :> FileNode(ContentX))
\* what may be at the destination before the invocation
PreDir ==
    (<<>> :> DirNode) @@ (<<Keep>> :> FileNode(ContentY))
PreFile ==
    (<<>> :> FileNode(ContentY))

\* the filesystem f with the tree planted at the path at (what f holds stays)
Plant(f, at, tree) ==
    [q \in DOMAIN f \cup Prefixes(at) \cup {at \o rel : rel \in DOMAIN tree} |->
        IF q \in DOMAIN f THEN f[q]
        ELSE IF Under(q, at) THEN tree[SubSeq(q, Len(at) + 1, Len(q))]
        ELSE DirNode]

RECURSIVE PlantAll(_, _, _)
PlantAll(f, locs, tree) ==
    IF locs = {} THEN f
    ELSE LET at == CHOOSE x \in locs : TRUE
         IN  PlantAll(Plant(f, at, tree), locs \ {at}, tree)

\* the directories every world has: the root, the workspace, the install
BaseFs ==
    Plant(Plant(Plant((<<>> :> DirNode), <<NameW>>, (<<>> :> DirNode)),
                Dirname, (<<>> :> DirNode)), ExecDir, (<<>> :> DirNode))

(***************************************************************************)
(* Template Locator.                                                       *)
(***************************************************************************)
\* possiblePaths of getTemplatePath, for the working directory c
possiblePaths(c) ==
    << Join(c, PLACEHOLDER),
       Join(Parent(Parent(Parent(Parent(Dirname)))), PLACEHOLDER),
       Join(Dirname, TEMPLATE),
       Join(Parent(Dirname), TEMPLATE),
       Join(Parent(Parent(Dirname)), TEMPLATE),
       Join(ExecDir, TEMPLATE),
       Join(Parent(ExecDir), TEMPLATE),
       Join(Join(Parent(ExecDir), LIB), TEMPLATE) >>

\* the candidates that exist
ExistingCandidates(f, c) ==
    {k \in 1..Len(possiblePaths(c)) : existsSync(f, possiblePaths(c)[k])}

\* the greatest element of a non-empty set of positions
MaxOf(S) ==
    CHOOSE j \in S : \A k \in S : j >= k

\* a faulty variant of the locator: the loop does not stop at the first hit
getTemplatePathLastHit(f, c) ==
    IF ExistingCandidates(f, c) = {} THEN Join(c, PLACEHOLDER)
    ELSE possiblePaths(c)[MaxOf(ExistingCandidates(f, c))]

\* getTemplatePath(): the first candidate that exists, else <cwd>/sns-demo
getTemplatePath(f, c) ==
    IF ExistingCandidates(f, c) = {} THEN Join(c, PLACEHOLDER)
    ELSE possiblePaths(c)[MinOf(ExistingCandidates(f, c))]

\* the candidates getTemplatePath() probes, in order: up to the first hit
TemplateProbes(f, c) ==
    IF ExistingCandidates(f, c) = {} THEN possiblePaths(c)
    ELSE SubSeq(possiblePaths(c), 1, MinOf(ExistingCandidates(f, c)))

(***************************************************************************)
(* Phase State Detector and the prompts of the generator-driven variant.   *)
(***************************************************************************)
\* `${projectName}-parent`
ProjectDir(n) ==
    n \o ParentSuffix

\* the five module suffixes, in the order the action probes them
ModuleSuffixes ==
    <<SfxApp, SfxDomain, SfxInfra, SfxCommon, SfxStart>>

\* the six descriptor files, relative to the working directory, in the
\* order the action probes them (and lists them in the phase-one prompt)
DescriptorFiles(n) ==
    << <<ProjectDir(n), POMXML>> >>
    \o [k \in 1..Len(ModuleSuffixes) |-> <<ProjectDir(n), n \o ModuleSuffixes[k], POMXML>>]

\* the three files the phase-two prompt lists, relative to the working directory
RemainingFiles(n) ==
    << <<ProjectDir(n), n \o SfxStart, SrcDir, MainDir, JavaDir, ComDir, XhsDir,
         SnsDir, CleanName(n), StartDir, APPJAVA>>,
       <<ProjectDir(n), README>>,
       <<ProjectDir(n), GITIGNORE>> >>

\* "package com.xiaohongshu.sns.${projectName.replace(/-/g, '')}.start"
PackageLine(n) ==
    PkgPrefix \o CleanName(n) \o DotStart

\* the descriptor probes made: && stops at the first file that is missing
DescriptorProbes(f, c, n) ==
    LET d == DescriptorFiles(n)
        missing == {k \in 1..Len(d) : ~existsSync(f, c \o d[k])}
    IN  [k \in 1..(IF missing = {} THEN Len(d) ELSE MinOf(missing)) |-> c \o d[k]]

\* a faulty variant of allPomsExist: the probe of the common module is lost
allPomsExistNoCommon(f, c, n) ==
    \A k \in 1..Len(DescriptorFiles(n)) :
        k = 5 \/ existsSync(f, c \o DescriptorFiles(n)[k])

\* allPomsExist: rootPomExists && app && domain && infrastructure && common && start
allPomsExist(f, c, n) ==
    LET p == DescriptorProbes(f, c, n)
    IN  Len(p) = Len(DescriptorFiles(n)) /\ existsSync(f, p[Len(p)])

\* what the action returns
NoReturn ==
    [type |-> "none", phase |-> 0, mustCreate |-> <<>>, offer |-> FALSE, package |-> <<>>]
\* return; (or the end of the function)
ReturnVoid ==
    [type |-> "void", phase |-> 0, mustCreate |-> <<>>, offer |-> FALSE, package |-> <<>>]
\* an exception leaves the action
ReturnThrew ==
    [type |-> "threw", phase |-> 0, mustCreate |-> <<>>, offer |-> FALSE, package |-> <<>>]
\* a faulty variant of the phase-one prompt: the closing offer is lost
PhaseOnePromptNoOffer(n) ==
    [type |-> "submit_prompt", phase |-> 1, mustCreate |-> DescriptorFiles(n),
     offer |-> FALSE, package |-> PackageLine(n)]

\* the phase-one prompt: the six POM files, then the offer to go on
PhaseOnePrompt(n) ==
    [type |-> "submit_prompt", phase |-> 1, mustCreate |-> DescriptorFiles(n),
     offer |-> TRUE, package |-> PackageLine(n)]
\* the phase-two prompt: the three remaining files
PhaseTwoPrompt(n) ==
    [type |-> "submit_prompt", phase |-> 2, mustCreate |-> RemainingFiles(n),
     offer |-> FALSE, package |-> PackageLine(n)]

(***************************************************************************)
(* State.                                                                  *)
(***************************************************************************)
\* invocations of the action
Procs ==
    {1}

VARIABLES
    variant,       \* which build of the command runs: "clone" or "gen"
    cwd,           \* process.cwd()
    fs,            \* the filesystem: path -> node
    fs0,           \* the filesystem when the current invocation began
    args,          \* args of the invocation
    pc,            \* where the invocation is
    projectName,   \* const projectName
    templatePath,  \* const templatePath
    targetPath,    \* const targetPath
    stack,         \* the calls of copyAndReplaceDir: [src, dest, items]
    cur,           \* the call of copyAndReplaceFile: [src, dest, content]
    error,         \* the error caught by the action
    ui,            \* the items given to context.ui.addItem
    console,       \* the lines given to console.warn
    ret,           \* what the action returned
    log,           \* the calls of fs made, in order
    runs,          \* how many times the action was invoked
    prev,          \* the outcome of the invocation before this one
    vIn,           \* an argument of the name validators
    vOut,          \* their results
    rIn,           \* the arguments of the Token Rewriter, in parts
    rOut           \* its results

vars ==
    <<variant, cwd, fs, fs0, args, pc, projectName, templatePath, targetPath,
      stack, cur, error, ui, console, ret, log, runs, prev, vIn, vOut, rIn, rOut>>

\* how many times the host invokes the action on one filesystem
MaxRuns == 2

NoError ==
    [op |-> "", path |-> <<>>]
NoCur ==
    [src |-> <<>>, dest |-> <<>>, content |-> <<>>]
NoPrev ==
    [has |-> FALSE, sameFs |-> FALSE, ret |-> NoReturn, ui |-> <<>>]
NoValidation ==
    [done |-> FALSE, clone |-> FALSE, gen |-> FALSE]
NoRewriteIn ==
    [lead |-> <<>>, open |-> <<>>, core |-> <<>>, tail |-> <<>>, close |-> <<>>,
     times |-> 0, name |-> <<>>]
NoRewrite ==
    [done |-> FALSE, content |-> <<>>, item |-> <<>>, package |-> <<>>, appPath |-> <<>>]

Item(type, text, op, path) ==
    [type |-> type, text |-> text, op |-> op, path |-> path]
Call(op, path) ==
    [op |-> op, path |-> path]

(***************************************************************************)
(* Initial states: the worlds an invocation may start in.                  *)
(***************************************************************************)
\* cloning variant: [cwd, locs: where a template tree lies, tree, pre: what
\* lies at the destination]
CloneWorlds ==
    [cwd : {<<NameW>>},
     locs : { {}, {Join(<<NameW>>, PLACEHOLDER)}, {Join(Dirname, TEMPLATE)},
              {Join(<<NameW>>, PLACEHOLDER), Join(Dirname, TEMPLATE)},
              {Join(Join(Parent(ExecDir), LIB), TEMPLATE)} },
     tree : {TreeA, TreeB, TreeC},
     pre : {"none", "dir", "file"}]
    \cup
    \* the working directory is the template root itself
    [cwd : {<<TEMPLATE>>}, locs : {{<<TEMPLATE>>}}, tree : {TreeD}, pre : {"none"}]
    \cup
    \* the working directory was removed
    [cwd : {<<NameGone>>}, locs : {{Join(Dirname, TEMPLATE)}}, tree : {TreeA}, pre : {"none"}]

\* the filesystem of a world of the cloning variant, for the arguments a
CloneFs(w, a) ==
    LET f == PlantAll(BaseFs, w.locs, w.tree)
        t == Join(w.cwd, Trim(a))
    IN  IF w.pre = "none" \/ Trim(a) = <<>> \/ t \in DOMAIN f THEN f
        ELSE Plant(f, t, IF w.pre = "dir" THEN PreDir ELSE PreFile)

\* generator-driven variant: the files among the nine that exist
GenFiles(n) ==
    DescriptorFiles(n) \o RemainingFiles(n)

GenFs(c, n, present) ==
    LET files == {c \o GenFiles(n)[k] : k \in present}
    IN  [q \in DOMAIN BaseFs \cup UNION {Prefixes(x) : x \in files} |->
            IF q \in DOMAIN BaseFs THEN BaseFs[q]
            ELSE IF q \in files THEN FileNode(<<>>) ELSE DirNode]

InitCommon ==
    /\ fs0 = fs
    /\ pc = [i \in Procs |-> "start"]
    /\ projectName = [i \in Procs |-> <<>>]
    /\ templatePath = [i \in Procs |-> <<>>]
    /\ targetPath = [i \in Procs |-> <<>>]
    /\ stack = [i \in Procs |-> <<>>]
    /\ cur = [i \in Procs |-> NoCur]
    /\ error = [i \in Procs |-> NoError]
    /\ ui = [i \in Procs |-> <<>>]
    /\ console = [i \in Procs |-> <<>>]
    /\ ret = [i \in Procs |-> NoReturn]
    /\ log = [i \in Procs |-> <<>>]
    /\ runs = [i \in Procs |-> 1]
    /\ prev = [i \in Procs |-> NoPrev]

InitClone ==
    /\ variant = "clone"
    /\ \E a \in ArgSet, w \in CloneWorlds :
        /\ args = [i \in Procs |-> a]
        /\ cwd = w.cwd
        /\ fs = CloneFs(w, a)
    /\ vIn = <<>> /\ vOut = NoValidation
    /\ rIn = NoRewriteIn /\ rOut = NoRewrite
    /\ InitCommon

InitGen ==
    /\ variant = "gen"
    /\ \E a \in ArgSet, c \in {<<NameW>>, <<NameGone>>}, present \in SUBSET (1..9) :
        /\ c = <<NameGone>> => present = {}
        /\ args = [i \in Procs |-> a]
        /\ cwd = c
        /\ fs = GenFs(<<NameW>>, Trim(a), present)
    /\ vIn = <<>> /\ vOut = NoValidation
    /\ rIn = NoRewriteIn /\ rOut = NoRewrite
    /\ InitCommon

Init ==
    InitClone \/ InitGen

(***************************************************************************)
(* The action of the cloning variant, one step per call of fs.             *)
(***************************************************************************)
Top(i) ==
    stack[i][Len(stack[i])]

\* the stack with the top call's remaining items replaced
SetItems(i, items) ==
    [stack[i] EXCEPT ![Len(stack[i])].items = items]

\* an exception leaves copyAndReplaceDir and is caught by the action
Throw(i, op, path) ==
    /\ error' = [error EXCEPT ![i] = [op |-> op, path |-> path]]
    /\ stack' = [stack EXCEPT ![i] = <<>>]
    /\ pc' = [pc EXCEPT ![i] = "catch"]

Logged(i, calls) ==
    log' = [log EXCEPT ![i] = @ \o calls]

AddItem(i, item) ==
    ui' = [ui EXCEPT ![i] = Append(@, item)]

Goto(i, where) ==
    pc' = [pc EXCEPT ![i] = where]

Return(i, value) ==
    /\ ret' = [ret EXCEPT ![i] = value]
    /\ pc' = [pc EXCEPT ![i] = "done"]

world == <<variant, cwd, fs0, args, runs, prev, vIn, vOut, rIn, rOut>>

\* a faulty variant of the validation step: the name is not checked
CloneValidateUnchecked(i) ==
    /\ variant = "clone" /\ pc[i] = "start"
    /\ projectName' = [projectName EXCEPT ![i] = Trim(args[i])]
    /\ Goto(i, "locate")
    /\ UNCHANGED <<world, fs, templatePath, targetPath, stack, cur, error, console, log, ui, ret>>

\* const projectName = args.trim(); if (!validateProjectName(projectName)) ...
CloneValidate(i) ==
    /\ variant = "clone" /\ pc[i] = "start"
    /\ projectName' = [projectName EXCEPT ![i] = Trim(args[i])]
    /\ IF validateProjectName(Trim(args[i]))
       THEN Goto(i, "locate") /\ UNCHANGED <<ui, ret>>
       ELSE AddItem(i, Item("ERROR", "invalidName", "", <<>>)) /\ Return(i, ReturnVoid)
    /\ UNCHANGED <<world, fs, templatePath, targetPath, stack, cur, error, console, log>>

\* const templatePath = getTemplatePath(); process.cwd() throws when the
\* working directory is gone, and nothing in the action catches it here
CloneLocate(i) ==
    /\ pc[i] = "locate"
    /\ IF ~existsSync(fs, cwd)
       THEN Return(i, ReturnThrew) /\ UNCHANGED <<templatePath, log>>
       ELSE /\ templatePath' = [templatePath EXCEPT ![i] = getTemplatePath(fs, cwd)]
            /\ Logged(i, [k \in 1..Len(TemplateProbes(fs, cwd)) |->
                            Call("exists", TemplateProbes(fs, cwd)[k])])
            /\ Goto(i, "checkTemplate")
            /\ UNCHANGED ret
    /\ UNCHANGED <<world, fs, projectName, targetPath, stack, cur, error, ui, console>>

\* a faulty variant of the template check: the return after the error is lost
CloneCheckTemplateNoReturn(i) ==
    /\ pc[i] = "checkTemplate"
    /\ Logged(i, <<Call("exists", templatePath[i])>>)
    /\ IF existsSync(fs, templatePath[i])
       THEN UNCHANGED ui
       ELSE AddItem(i, Item("ERROR", "templateMissing", "", templatePath[i]))
    /\ Goto(i, "checkDest")
    /\ UNCHANGED <<world, fs, projectName, templatePath, targetPath, stack, cur, error,
                   console, ret>>

\* if (!fs.existsSync(templatePath)) ... return
CloneCheckTemplate(i) ==
    /\ pc[i] = "checkTemplate"
    /\ Logged(i, <<Call("exists", templatePath[i])>>)
    /\ IF existsSync(fs, templatePath[i])
       THEN Goto(i, "checkDest") /\ UNCHANGED <<ui, ret>>
       ELSE /\ AddItem(i, Item("ERROR", "templateMissing", "", templatePath[i]))
            /\ Return(i, ReturnVoid)
    /\ UNCHANGED <<world, fs, projectName, templatePath, targetPath, stack, cur, error, console>>

\* a faulty variant of the destination check: an existing destination is accepted
CloneCheckDestAccepting(i) ==
    /\ pc[i] = "checkDest"
    /\ targetPath' = [targetPath EXCEPT ![i] = Join(cwd, projectName[i])]
    /\ Logged(i, <<Call("exists", Join(cwd, projectName[i]))>>)
    /\ Goto(i, "notice")
    /\ UNCHANGED <<world, fs, projectName, templatePath, stack, cur, error, console, ui, ret>>

\* const targetPath = path.join(process.cwd(), projectName);
\* if (fs.existsSync(targetPath)) ... return
CloneCheckDest(i) ==
    /\ pc[i] = "checkDest"
    /\ targetPath' = [targetPath EXCEPT ![i] = Join(cwd, projectName[i])]
    /\ Logged(i, <<Call("exists", Join(cwd, projectName[i]))>>)
    /\ IF existsSync(fs, Join(cwd, projectName[i]))
       THEN /\ AddItem(i, Item("ERROR", "targetExists", "", Join(cwd, projectName[i])))
            /\ Return(i, ReturnVoid)
       ELSE Goto(i, "notice") /\ UNCHANGED <<ui, ret>>
    /\ UNCHANGED <<world, fs, projectName, templatePath, stack, cur, error, console>>

\* the start notice, then the call copyAndReplaceDir(templatePath, targetPath, ...)
CloneNotice(i) ==
    /\ pc[i] = "notice"
    /\ AddItem(i, Item("INFO", "start", "", <<projectName[i]>>))
    /\ stack' = [stack EXCEPT ![i] =
                    <<[src |-> templatePath[i], dest |-> targetPath[i], items |-> {}]>>]
    /\ Goto(i, "dirMkdir")
    /\ UNCHANGED <<world, fs, projectName, templatePath, targetPath, cur, error, console, ret, log>>

(***************************************************************************)
(* Tree Cloner: copyAndReplaceDir and copyAndReplaceFile.  Every call of   *)
(* fs that can throw may do so (permissions, a full disk): ok is FALSE.    *)
(***************************************************************************)
\* whether a call succeeds: never when the filesystem state forbids it
Outcomes(possible) ==
    {ok \in BOOLEAN : ok => possible}

\* if (!fs.existsSync(destDir)) fs.mkdirSync(destDir, { recursive: true })
DirMkdir(i) ==
    /\ pc[i] = "dirMkdir"
    /\ LET d == Top(i).dest
       IN  IF existsSync(fs, d)
           THEN /\ Logged(i, <<Call("exists", d)>>)
                /\ Goto(i, "dirRead")
                /\ UNCHANGED <<fs, stack, error>>
           ELSE /\ Logged(i, <<Call("exists", d), Call("mkdir", d)>>)
                /\ \E ok \in Outcomes(MkdirOk(fs, d)) :
                     IF ok
                     THEN /\ fs' = mkdirSync(fs, d)
                          /\ Goto(i, "dirRead")
                          /\ UNCHANGED <<stack, error>>
                     ELSE Throw(i, "mkdir", d) /\ UNCHANGED fs
    /\ UNCHANGED <<world, projectName, templatePath, targetPath, cur, ui, console, ret>>

\* const items = fs.readdirSync(srcDir)
DirRead(i) ==
    /\ pc[i] = "dirRead"
    /\ Logged(i, <<Call("readdir", Top(i).src)>>)
    /\ \E ok \in Outcomes(ReaddirOk(fs, Top(i).src)) :
         IF ok
         THEN /\ stack' = [stack EXCEPT ![i] = SetItems(i, readdirSync(fs, Top(i).src))]
              /\ Goto(i, "loop")
              /\ UNCHANGED error
         ELSE Throw(i, "readdir", Top(i).src)
    /\ UNCHANGED <<world, fs, projectName, templatePath, targetPath, cur, ui, console, ret>>

\* the next item of the loop (fs.readdirSync fixes no order): its paths,
\* fs.statSync(srcPath), and the branch on what it is
LoopNext(i) ==
    /\ pc[i] = "loop"
    /\ \E item \in Top(i).items :
         LET srcPath == Join(Top(i).src, item)
             destItemName == RewriteItemName(item, projectName[i])
             destPath == Join(Top(i).dest, destItemName)
             rest == SetItems(i, Top(i).items \ {item})
         IN  /\ Logged(i, <<Call("stat", srcPath)>>)
             /\ \E ok \in Outcomes(StatOk(fs, srcPath)) :
                  IF ~ok
                  THEN Throw(i, "stat", srcPath) /\ UNCHANGED cur
                  ELSE /\ UNCHANGED error
                       /\ IF fs[srcPath].kind = "dir"
                          THEN /\ stack' = [stack EXCEPT ![i] = Append(rest,
                                      [src |-> srcPath, dest |-> destPath, items |-> {}])]
                               /\ Goto(i, "dirMkdir")
                               /\ UNCHANGED cur
                          ELSE IF fs[srcPath].kind = "file"
                          THEN /\ stack' = [stack EXCEPT ![i] = rest]
                               /\ cur' = [cur EXCEPT ![i] =
                                      [src |-> srcPath, dest |-> destPath, content |-> <<>>]]
                               /\ Goto(i, "fileMkdir")
                          ELSE /\ stack' = [stack EXCEPT ![i] = rest]
                               /\ Goto(i, "loop")
                               /\ UNCHANGED cur
    /\ UNCHANGED <<world, fs, projectName, templatePath, targetPath, ui, console, ret>>

\* the loop is over: copyAndReplaceDir returns to its caller
LoopEnd(i) ==
    /\ pc[i] = "loop"
    /\ Top(i).items = {}
    /\ stack' = [stack EXCEPT ![i] = SubSeq(@, 1, Len(@) - 1)]
    /\ Goto(i, IF Len(stack[i]) = 1 THEN "success" ELSE "loop")
    /\ UNCHANGED <<world, fs, projectName, templatePath, targetPath, cur, error, ui,
                   console, ret, log>>

\* copyAndReplaceFile: if (!fs.existsSync(destDir)) fs.mkdirSync(destDir, ...)
FileMkdir(i) ==
    /\ pc[i] = "fileMkdir"
    /\ LET d == Parent(cur[i].dest)
       IN  IF existsSync(fs, d)
           THEN /\ Logged(i, <<Call("exists", d)>>)
                /\ Goto(i, "fileRead")
                /\ UNCHANGED <<fs, stack, error>>
           ELSE /\ Logged(i, <<Call("exists", d), Call("mkdir", d)>>)
                /\ \E ok \in Outcomes(MkdirOk(fs, d)) :
                     IF ok
                     THEN /\ fs' = mkdirSync(fs, d)
                          /\ Goto(i, "fileRead")
                          /\ UNCHANGED <<stack, error>>
                     ELSE Throw(i, "mkdir", d) /\ UNCHANGED fs
    /\ UNCHANGED <<world, projectName, templatePath, targetPath, cur, ui, console, ret>>

\* const content = fs.readFileSync(srcFile, 'utf8')
FileRead(i) ==
    /\ pc[i] = "fileRead"
    /\ Logged(i, <<Call("read", cur[i].src)>>)
    /\ \E ok \in Outcomes(ReadOk(fs, cur[i].src)) :
         IF ok
         THEN /\ cur' = [cur EXCEPT ![i].content = fs[cur[i].src].content]
              /\ Goto(i, "fileWrite")
              /\ UNCHANGED <<stack, error>>
         ELSE Throw(i, "read", cur[i].src) /\ UNCHANGED cur
    /\ UNCHANGED <<world, fs, projectName, templatePath, targetPath, ui, console, ret>>

\* a faulty variant of the write: the content is written as it was read
FileWriteUnchanged(i) ==
    /\ pc[i] = "fileWrite"
    /\ Logged(i, <<Call("write", cur[i].dest)>>)
    /\ \E ok \in Outcomes(WriteOk(fs, cur[i].dest)) :
         IF ok
         THEN /\ fs' = writeFileSync(fs, cur[i].dest, cur[i].content)
              /\ Goto(i, "loop")
              /\ UNCHANGED <<stack, error>>
         ELSE Throw(i, "write", cur[i].dest) /\ UNCHANGED fs
    /\ UNCHANGED <<world, projectName, templatePath, targetPath, cur, ui, console, ret>>

\* const newContent = replaceProjectNames(content, oldName, newName);
\* fs.writeFileSync(destFile, newContent, 'utf8')
FileWrite(i) ==
    /\ pc[i] = "fileWrite"
    /\ Logged(i, <<Call("write", cur[i].dest)>>)
    /\ \E ok \in Outcomes(WriteOk(fs, cur[i].dest)) :
         IF ok
         THEN /\ fs' = writeFileSync(fs, cur[i].dest,
                          replaceProjectNames(cur[i].content, OldNameArg, projectName[i]))
              /\ Goto(i, "loop")
              /\ UNCHANGED <<stack, error>>
         ELSE Throw(i, "write", cur[i].dest) /\ UNCHANGED fs
    /\ UNCHANGED <<world, projectName, templatePath, targetPath, cur, ui, console, ret>>

(***************************************************************************)
(* The end of the cloning action.                                          *)
(***************************************************************************)
\* the success notice
CloneSuccess(i) ==
    /\ pc[i] = "success"
    /\ AddItem(i, Item("INFO", "success", "", targetPath[i]))
    /\ Return(i, ReturnVoid)
    /\ UNCHANGED <<world, fs, projectName, templatePath, targetPath, stack, cur, error,
                   console, log>>

\* a faulty variant of the catch block: the failed creation is not cleaned up
CloneCatchNoCleanup(i) ==
    /\ pc[i] = "catch"
    /\ Logged(i, <<Call("exists", targetPath[i])>>)
    /\ Goto(i, "report")
    /\ UNCHANGED <<world, fs, projectName, templatePath, targetPath, stack, cur, error,
                   ui, ret, console>>

\* catch (error): if (fs.existsSync(targetPath)) try { fs.rmSync(targetPath,
\* { recursive: true, force: true }) } catch (cleanupError) { console.warn(...) }
CloneCatch(i) ==
    /\ pc[i] = "catch"
    /\ IF ~existsSync(fs, targetPath[i])
       THEN /\ Logged(i, <<Call("exists", targetPath[i])>>)
            /\ UNCHANGED <<fs, console>>
       ELSE /\ Logged(i, <<Call("exists", targetPath[i]), Call("rm", targetPath[i])>>)
            /\ \E ok \in BOOLEAN :
                 IF ok
                 THEN fs' = rmSync(fs, targetPath[i]) /\ UNCHANGED console
                 ELSE /\ \E R \in PartialRemovals(fs, targetPath[i]) : fs' = Without(fs, R)
                      /\ console' = [console EXCEPT ![i] =
                             Append(@, Call("cleanupFailed", targetPath[i]))]
    /\ Goto(i, "report")
    /\ UNCHANGED <<world, projectName, templatePath, targetPath, stack, cur, error, ui, ret>>

\* a faulty variant of the report: nothing is said when the cleanup failed too
CloneReportUnlessWarned(i) ==
    /\ pc[i] = "report"
    /\ IF console[i] = <<>>
       THEN AddItem(i, Item("ERROR", "createFailed", error[i].op, error[i].path))
       ELSE UNCHANGED ui
    /\ Return(i, ReturnVoid)
    /\ UNCHANGED <<world, fs, projectName, templatePath, targetPath, stack, cur, error,
                   console, log>>

\* a faulty variant of the report: the success notice stands after the
\* try statement, and the catch block falls through to it
CloneReportFallsThrough(i) ==
    /\ pc[i] = "report"
    /\ AddItem(i, Item("ERROR", "createFailed", error[i].op, error[i].path))
    /\ Goto(i, "success")
    /\ UNCHANGED <<world, fs, projectName, templatePath, targetPath, stack, cur, error,
                   console, log, ret>>

\* the ERROR item with the message of the error caught
CloneReport(i) ==
    /\ pc[i] = "report"
    /\ AddItem(i, Item("ERROR", "createFailed", error[i].op, error[i].path))
    /\ Return(i, ReturnVoid)
    /\ UNCHANGED <<world, fs, projectName, templatePath, targetPath, stack, cur, error,
                   console, log>>

(***************************************************************************)
(* The action of the generator-driven variant.                             *)
(***************************************************************************)
\* const projectName = args.trim(); if (!validateProjectName(projectName)) ...
GenValidate(i) ==
    /\ variant = "gen" /\ pc[i] = "start"
    /\ projectName' = [projectName EXCEPT ![i] = Trim(args[i])]
    /\ IF validateProjectNameGen(Trim(args[i]))
       THEN Goto(i, "probe") /\ UNCHANGED <<ui, ret>>
       ELSE AddItem(i, Item("ERROR", "invalidName", "", <<>>)) /\ Return(i, ReturnVoid)
    /\ UNCHANGED <<world, fs, templatePath, targetPath, stack, cur, error, console, log>>

\* a faulty variant: the action creates the project directory as it probes
GenFsAfterMkdir(f, c, n) ==
    mkdirSync(f, Join(c, ProjectDir(n)))

\* the filesystem the probing leaves behind: the action writes nothing
GenFsAfter(f, c, n) ==
    f

\* try { the six probes; return the prompt of the phase } catch (error) { ... };
\* process.cwd() throws when the working directory is gone
GenProbe(i) ==
    /\ pc[i] = "probe"
    /\ IF ~existsSync(fs, cwd)
       THEN /\ AddItem(i, Item("ERROR", "probeFailed", "cwd", cwd))
            /\ Return(i, ReturnVoid)
            /\ UNCHANGED <<log, fs>>
       ELSE /\ Logged(i, [k \in 1..Len(DescriptorProbes(fs, cwd, projectName[i])) |->
                            Call("exists", DescriptorProbes(fs, cwd, projectName[i])[k])])
            /\ fs' = GenFsAfter(fs, cwd, projectName[i])
            /\ IF allPomsExist(fs, cwd, projectName[i])
               THEN /\ AddItem(i, Item("INFO", "pomsExist", "", <<>>))
                    /\ Return(i, PhaseTwoPrompt(projectName[i]))
               ELSE /\ AddItem(i, Item("INFO", "generating", "", <<projectName[i]>>))
                    /\ Return(i, PhaseOnePrompt(projectName[i]))
    /\ UNCHANGED <<world, projectName, templatePath, targetPath, stack, cur, error, console>>

(***************************************************************************)
(* The host invokes the action again, with the same arguments.             *)
(***************************************************************************)
Reinvoke(i) ==
    /\ pc[i] = "done"
    /\ runs[i] < MaxRuns
    /\ runs' = [runs EXCEPT ![i] = @ + 1]
    /\ prev' = [prev EXCEPT ![i] =
                   [has |-> TRUE, sameFs |-> (fs = fs0),
                    ret |-> ret[i], ui |-> IF variant = "gen" THEN ui[i] ELSE <<>>]]
    /\ fs0' = fs
    /\ pc' = [pc EXCEPT ![i] = "start"]
    /\ projectName' = [projectName EXCEPT ![i] = <<>>]
    /\ templatePath' = [templatePath EXCEPT ![i] = <<>>]
    /\ targetPath' = [targetPath EXCEPT ![i] = <<>>]
    /\ stack' = [stack EXCEPT ![i] = <<>>]
    /\ cur' = [cur EXCEPT ![i] = NoCur]
    /\ error' = [error EXCEPT ![i] = NoError]
    /\ ui' = [ui EXCEPT ![i] = <<>>]
    /\ console' = [console EXCEPT ![i] = <<>>]
    /\ ret' = [ret EXCEPT ![i] = NoReturn]
    /\ log' = [log EXCEPT ![i] = <<>>]
    /\ UNCHANGED <<variant, cwd, fs, args, vIn, vOut, rIn, rOut>>

Next ==
    \E i \in Procs :
        \/ CloneValidate(i)
        \/ CloneLocate(i)
        \/ CloneCheckTemplate(i)
        \/ CloneCheckDest(i)
        \/ CloneNotice(i)
        \/ DirMkdir(i)
        \/ DirRead(i)
        \/ LoopNext(i)
        \/ LoopEnd(i)
        \/ FileMkdir(i)
        \/ FileRead(i)
        \/ FileWrite(i)
        \/ CloneSuccess(i)
        \/ CloneCatch(i)
        \/ CloneReport(i)
        \/ GenValidate(i)
        \/ GenProbe(i)
        \/ Reinvoke(i)

Spec ==
    Init /\ [][Next]_vars

(***************************************************************************)
(* Two invocations of the cloning action with the same project name, in    *)
(* two processes started in the same working directory.  Each runs the     *)
(* steps of the action in order; the operating system may run the other    *)
(* process between any two calls of fs.                                    *)
(***************************************************************************)
\* the two invocations
Pair ==
    {1, 2}

InitPair ==
    /\ variant = "clone"
    /\ cwd = <<NameW>>
    /\ \E tree \in {TreeA, TreeD} :
          fs = PlantAll(BaseFs, {Join(<<NameW>>, PLACEHOLDER)}, tree)
    /\ fs0 = fs
    /\ args = [i \in Pair |-> Zoo]
    /\ pc = [i \in Pair |-> "start"]
    /\ projectName = [i \in Pair |-> <<>>]
    /\ templatePath = [i \in Pair |-> <<>>]
    /\ targetPath = [i \in Pair |-> <<>>]
    /\ stack = [i \in Pair |-> <<>>]
    /\ cur = [i \in Pair |-> NoCur]
    /\ error = [i \in Pair |-> NoError]
    /\ ui = [i \in Pair |-> <<>>]
    /\ console = [i \in Pair |-> <<>>]
    /\ ret = [i \in Pair |-> NoReturn]
    /\ log = [i \in Pair |-> <<>>]
    /\ runs = [i \in Pair |-> 1]
    /\ prev = [i \in Pair |-> NoPrev]
    /\ vIn = <<>> /\ vOut = NoValidation
    /\ rIn = NoRewriteIn /\ rOut = NoRewrite

NextPair ==
    \E i \in Pair :
        \/ CloneValidate(i)
        \/ CloneLocate(i)
        \/ CloneCheckTemplate(i)
        \/ CloneCheckDest(i)
        \/ CloneNotice(i)
        \/ DirMkdir(i)
        \/ DirRead(i)
        \/ LoopNext(i)
        \/ LoopEnd(i)
        \/ FileMkdir(i)
        \/ FileRead(i)
        \/ FileWrite(i)
        \/ CloneSuccess(i)
        \/ CloneCatch(i)
        \/ CloneReport(i)

SpecPair ==
    InitPair /\ [][NextPair]_vars

(***************************************************************************)
(* The name validators on their own, over every short string.              *)
(***************************************************************************)
\* the characters tried: lowercase letters, digits, the hyphen, an uppercase
\* letter, the underscore, a dot, a blank and a line end
Alphabet ==
    {"a", "z", "0", "9", "-", "A", "_", ".", " ", "\n"}

Strings ==
    UNION {[1..n -> Alphabet] : n \in 0..MaxLen}

InitValidate ==
    /\ variant = "none"
    /\ cwd = <<>>
    /\ fs = (<<>> :> DirNode)
    /\ args = [i \in Procs |-> <<>>]
    /\ InitCommon
    /\ vIn \in Strings
    /\ vOut = NoValidation
    /\ rIn = NoRewriteIn /\ rOut = NoRewrite

\* both validators applied to the argument
Validate ==
    /\ ~vOut.done
    /\ vOut' = [done |-> TRUE, clone |-> validateProjectName(vIn),
                gen |-> validateProjectNameGen(vIn)]
    /\ UNCHANGED <<variant, cwd, fs, fs0, args, pc, projectName, templatePath, targetPath,
                   stack, cur, error, ui, console, ret, log, runs, prev, vIn, rIn, rOut>>

NextValidate ==
    Validate

SpecValidate ==
    InitValidate /\ [][NextValidate]_vars

(***************************************************************************)
(* The Token Rewriter on its own: replaceProjectNames, the renaming of     *)
(* copyAndReplaceDir and the collapsed name of the prompts, applied to     *)
(* contents built from the texts the rules look for.                       *)
(***************************************************************************)
\* how many times a text is repeated in a content (the patterns are /g)
MaxTimes == 2

PrefixDash ==
    <<"p","r","e","f","i","x","-">>
DashSuffix ==
    <<"-","s","u","f","f","i","x">>
DotApp ==
    <<".","a","p","p">>
LetterX ==
    <<"x">>
SnsDemo2 ==
    <<"s","n","s","-","d","e","m","o","-","2">>
NewLine ==
    <<"\n">>

\* what may stand before the value: nothing, text, the two configuration keys
Leads ==
    {<<>>, LetterX, PrefixDash, SpringEq, SpringColon, SpringColon \o Space \o Space}
\* the labeled declarations: [open, close]
Tags ==
    {<< <<>>, <<>> >>, <<ArtOpen, ArtClose>>, <<NameOpen, NameClose>>, <<ModOpen, ModClose>>}
\* the value: the placeholder, the placeholder namespace, the template
\* variable, the second argument of the call, other text, nothing
Cores ==
    {PLACEHOLDER, PkgOld, ProjVar, OldNameArg, LetterX, <<>>}
\* what follows the value
Tails ==
    {<<>>, SfxApp, ParentSuffix, Dash \o PLACEHOLDER, DashSuffix, DotApp}
\* the target names: all pass validateProjectName
RewriteNames ==
    {Zoo, Trim(ArgAB), SnsDemo2, PLACEHOLDER}

RewriteInputs ==
    {r \in [lead : Leads, open : {t[1] : t \in Tags}, core : Cores, tail : Tails,
            close : {t[2] : t \in Tags}, times : 1..MaxTimes, name : RewriteNames] :
        <<r.open, r.close>> \in Tags}

\* one line of the content
Unit(r) ==
    r.lead \o r.open \o r.core \o r.tail \o r.close

\* the text u, n times, on lines of their own
RECURSIVE Repeat(_, _)
Repeat(u, n) ==
    IF n <= 1 THEN u ELSE u \o NewLine \o Repeat(u, n - 1)

\* the content string handed to the Token Rewriter
Content(r) ==
    Repeat(Unit(r), r.times)

InitRewrite ==
    /\ variant = "none"
    /\ cwd = <<>>
    /\ fs = (<<>> :> DirNode)
    /\ args = [i \in Procs |-> <<>>]
    /\ InitCommon
    /\ vIn = <<>> /\ vOut = NoValidation
    /\ rIn \in RewriteInputs
    /\ rOut = NoRewrite

\* replaceProjectNames(content, 'demo', newName) as copyAndReplaceFile calls
\* it, item.replace(/sns-demo/g, newName) as copyAndReplaceDir does, and the
\* package line and the path of Application.java of the prompts
Rewrite ==
    /\ ~rOut.done
    /\ rIn \in RewriteInputs
    /\ rOut' = [done |-> TRUE,
                content |-> replaceProjectNames(Content(rIn), OldNameArg, rIn.name),
                item |-> RewriteItemName(Content(rIn), rIn.name),
                package |-> PackageLine(rIn.name),
                appPath |-> RemainingFiles(rIn.name)[1]]
    /\ UNCHANGED <<variant, cwd, fs, fs0, args, pc, projectName, templatePath, targetPath,
                   stack, cur, error, ui, console, ret, log, runs, prev, vIn, vOut, rIn>>

NextRewrite ==
    Rewrite

SpecRewrite ==
    InitRewrite /\ [][NextRewrite]_vars

(***************************************************************************)
(* Properties.                                                             *)
(***************************************************************************)
\* the naming grammar, stated on the characters: lowercase letters, digits
\* and hyphens only, a letter first, no hyphen last
WellFormedName(s) ==
    /\ Len(s) >= 1
    /\ \A k \in 1..Len(s) : s[k] \in Lower \cup Digit \cup {"-"}
    /\ s[1] \in Lower
    /\ s[Len(s)] # "-"

HasItem(i, text) ==
    \E k \in 1..Len(ui[i]) : ui[i][k].text = text

HasCall(i, ops) ==
    \E k \in 1..Len(log[i]) : log[i][k].op \in ops

\* the destination name of a template entry: every segment rewritten
Image(i, rel) ==
    [k \in 1..Len(rel) |-> ReplaceLit(rel[k], PLACEHOLDER, projectName[i])]

\* the files and directories of the template tree when the invocation began
TemplateEntries(i) ==
    {rel \in DOMAIN Subtree(fs0, templatePath[i]) :
        fs0[templatePath[i] \o rel].kind \in {"file", "dir"}}

\* every file and directory of the template has its entry in the destination
FullyPopulated(i) ==
    \A rel \in TemplateEntries(i) : existsSync(fs, targetPath[i] \o Image(i, rel))

\* nothing is left at the destination
DestinationAbsent(i) ==
    \A q \in DOMAIN fs : ~Under(q, targetPath[i])

\* C1: when an invocation of the cloning action that started the clone has
\* ended, either the success notice was given and every template entry has its
\* entry in the destination, or the clone failed, and then, unless the cleanup
\* failed too, nothing exists at the destination.
C1_AtomicDestination ==
    \A i \in Procs :
        (variant = "clone" /\ pc[i] = "done" /\ HasItem(i, "start")) =>
            \/ /\ error[i] = NoError
               /\ HasItem(i, "success")
               /\ FullyPopulated(i)
            \/ /\ error[i] # NoError
               /\ console[i] = <<>> => DestinationAbsent(i)

\* a write failed after an earlier write had succeeded, the cleanup succeeded,
\* and the destination is gone
C1_Witness ==
    \E i \in Procs :
        /\ variant = "clone" /\ pc[i] = "done"
        /\ error[i].op = "write"
        /\ \E k \in 1..Len(log[i]) :
              log[i][k].op = "write" /\ log[i][k].path # error[i].path
        /\ console[i] = <<>>
        /\ HasCall(i, {"rm"})
        /\ DestinationAbsent(i)

\* the invocation has a valid name, finds a template, and something is at
\* <cwd>/<projectName> when it begins
Collides(i) ==
    /\ variant = "clone"
    /\ WellFormedName(Trim(args[i]))
    /\ existsSync(fs0, cwd)
    /\ existsSync(fs0, getTemplatePath(fs0, cwd))
    /\ existsSync(fs0, Join(cwd, Trim(args[i])))

\* C2: when something exists at <cwd>/<projectName> as the cloning action
\* begins (valid name, template found), the action never enters the clone nor
\* the cleanup, makes no call that creates, writes or removes, leaves what is
\* at that path as it was, and ends with the collision error as its one item.
C2_CollisionUntouched ==
    \A i \in Procs :
        Collides(i) =>
            /\ pc[i] \in {"start", "locate", "checkTemplate", "checkDest", "done"}
            /\ ~HasCall(i, {"mkdir", "write", "rm"})
            /\ Subtree(fs, Join(cwd, Trim(args[i]))) = Subtree(fs0, Join(cwd, Trim(args[i])))
            /\ pc[i] = "done" =>
                  /\ ui[i] = <<Item("ERROR", "targetExists", "", Join(cwd, Trim(args[i])))>>
                  /\ ret[i] = ReturnVoid

\* the action ended on a destination directory that held a file
C2_Witness ==
    \E i \in Procs :
        /\ Collides(i) /\ pc[i] = "done"
        /\ existsSync(fs, Join(Join(cwd, Trim(args[i])), Keep))
        /\ HasItem(i, "targetExists")

\* C3: when the Tree Cloner has failed and the action has ended, the last
\* item is the ERROR item carrying the error that was thrown, whether the
\* removal succeeded, failed or was not needed; and when the removal failed
\* (the destination is still there after fs.rmSync), console.warn was called
\* as well.
C3_OriginalErrorReported ==
    \A i \in Procs :
        /\ (pc[i] = "done" /\ error[i] # NoError) =>
              /\ ui[i] # <<>>
              /\ ui[i][Len(ui[i])] = Item("ERROR", "createFailed", error[i].op, error[i].path)
        /\ (pc[i] \in {"report", "done"} /\ HasCall(i, {"rm"})
                /\ existsSync(fs, targetPath[i])) =>
              console[i] = <<Call("cleanupFailed", targetPath[i])>>

\* the removal failed, and both the warning and the ERROR item were given
C3_Witness ==
    \E i \in Procs :
        /\ pc[i] = "done" /\ error[i] # NoError
        /\ HasCall(i, {"rm"}) /\ existsSync(fs, targetPath[i])
        /\ console[i] # <<>>
        /\ HasItem(i, "createFailed")

\* C4: in both variants, while the trimmed argument is no well-formed name
\* the action makes no call of fs and changes nothing, and it ends with the
\* validation error as its one item and without a prompt.
C4_ValidatedFirst ==
    \A i \in Procs :
        (variant \in {"clone", "gen"} /\ ~WellFormedName(Trim(args[i]))) =>
            /\ log[i] = <<>>
            /\ fs = fs0
            /\ pc[i] \in {"start", "done"}
            /\ pc[i] = "done" =>
                  /\ ui[i] = <<Item("ERROR", "invalidName", "", <<>>)>>
                  /\ ret[i] = ReturnVoid

\* the cloning action rejected a name although a template was there to find
C4_Witness ==
    \E i \in Procs :
        /\ variant = "clone" /\ pc[i] = "done"
        /\ args[i] = ArgBad
        /\ existsSync(fs, Join(cwd, PLACEHOLDER))
        /\ HasItem(i, "invalidName")

\* the entries of kind k below the path p
EntriesOf(f, p, k) ==
    {rel \in DOMAIN Subtree(f, p) : rel # <<>> /\ f[p \o rel].kind = k}

\* C5: after a successful clone the destination holds as many files and as
\* many directories as the template, every template file and directory is at
\* its rewritten path, and every file holds the rewritten content of its source.
C5_TreeShapePreserved ==
    \A i \in Procs :
        (variant = "clone" /\ pc[i] = "done" /\ HasItem(i, "success")) =>
            /\ Cardinality(EntriesOf(fs, targetPath[i], "file"))
                  = Cardinality(EntriesOf(fs0, templatePath[i], "file"))
            /\ Cardinality(EntriesOf(fs, targetPath[i], "dir"))
                  = Cardinality(EntriesOf(fs0, templatePath[i], "dir"))
            /\ \A rel \in TemplateEntries(i) :
                  /\ existsSync(fs, targetPath[i] \o Image(i, rel))
                  /\ fs[targetPath[i] \o Image(i, rel)].kind
                        = fs0[templatePath[i] \o rel].kind
                  /\ fs[targetPath[i] \o Image(i, rel)].content
                        = replaceProjectNames(fs0[templatePath[i] \o rel].content,
                                              OldNameArg, projectName[i])

\* the rewriting sends no two template entries to the same destination path
NamesStayDistinct(i) ==
    \A r1, r2 \in TemplateEntries(i) : Image(i, r1) = Image(i, r2) => r1 = r2

\* the statement of C5 for the templates whose rewritten names stay distinct
C5_ShapeWhenNamesDistinct ==
    \A i \in Procs :
        (variant = "clone" /\ pc[i] = "done" /\ HasItem(i, "success")
            /\ NamesStayDistinct(i)) =>
            /\ Cardinality(EntriesOf(fs, targetPath[i], "file"))
                  = Cardinality(EntriesOf(fs0, templatePath[i], "file"))
            /\ Cardinality(EntriesOf(fs, targetPath[i], "dir"))
                  = Cardinality(EntriesOf(fs0, templatePath[i], "dir"))
            /\ \A rel \in TemplateEntries(i) :
                  /\ existsSync(fs, targetPath[i] \o Image(i, rel))
                  /\ fs[targetPath[i] \o Image(i, rel)].kind
                        = fs0[templatePath[i] \o rel].kind
                  /\ fs[targetPath[i] \o Image(i, rel)].content
                        = replaceProjectNames(fs0[templatePath[i] \o rel].content,
                                              OldNameArg, projectName[i])

\* C6: from the moment the template is located, the tree below the template
\* root is what it was when the invocation began.
C6_TemplateNeverMutated ==
    \A i \in Procs :
        (variant = "clone" /\ templatePath[i] # <<>>) =>
            Subtree(fs, templatePath[i]) = Subtree(fs0, templatePath[i])

\* the statement of C6 for the invocations whose destination lies outside
\* the template root
C6_UnchangedWhenOutside ==
    \A i \in Procs :
        (variant = "clone" /\ templatePath[i] # <<>>
            /\ ~Under(Join(cwd, projectName[i]), templatePath[i])) =>
            Subtree(fs, templatePath[i]) = Subtree(fs0, templatePath[i])

\* the six descriptor files of the project n, below the working directory c
SixDescriptors(c, n) ==
    { c \o <<n \o ParentSuffix, POMXML>>,
      c \o <<n \o ParentSuffix, n \o SfxApp, POMXML>>,
      c \o <<n \o ParentSuffix, n \o SfxDomain, POMXML>>,
      c \o <<n \o ParentSuffix, n \o SfxInfra, POMXML>>,
      c \o <<n \o ParentSuffix, n \o SfxCommon, POMXML>>,
      c \o <<n \o ParentSuffix, n \o SfxStart, POMXML>> }

\* the three other files
ThreeOthers(c, n) ==
    { c \o <<n \o ParentSuffix, n \o SfxStart, SrcDir, MainDir, JavaDir, ComDir, XhsDir,
             SnsDir, ReplaceLit(n, Dash, <<>>), StartDir, APPJAVA>>,
      c \o <<n \o ParentSuffix, README>>,
      c \o <<n \o ParentSuffix, GITIGNORE>> }

\* C7: the generator-driven action takes the branch of allPomsExist (the
\* phase-two prompt) exactly when all six descriptor files exist, whatever
\* the three other files do.
C7_StructureComplete ==
    \A i \in Procs :
        (variant = "gen" /\ pc[i] = "done" /\ ret[i].type = "submit_prompt") =>
            (ret[i].phase = 2 <=> \A q \in SixDescriptors(cwd, projectName[i]) : existsSync(fs, q))

\* phase one with one descriptor file missing and the three other files there
C7_Witness ==
    \E i \in Procs :
        /\ variant = "gen" /\ pc[i] = "done" /\ ret[i].phase = 1
        /\ Cardinality({q \in SixDescriptors(cwd, projectName[i]) : existsSync(fs, q)}) = 5
        /\ \A q \in ThreeOthers(cwd, projectName[i]) : existsSync(fs, q)

\* C8: for a valid name and a working directory that is there, the action
\* returns one submit_prompt: phase one (the six descriptor files, with the
\* offer to go on) while a descriptor file is missing, phase two (the three
\* other files) when none is.
C8_PromptOfPhase ==
    \A i \in Procs :
        (variant = "gen" /\ pc[i] = "done" /\ WellFormedName(Trim(args[i]))
            /\ existsSync(fs, cwd)) =>
            LET n == Trim(args[i])
                complete == \A q \in SixDescriptors(cwd, n) : existsSync(fs, q)
            IN  /\ ret[i].type = "submit_prompt"
                /\ ~complete =>
                      /\ ret[i].phase = 1
                      /\ {cwd \o ret[i].mustCreate[k] : k \in 1..Len(ret[i].mustCreate)}
                            = SixDescriptors(cwd, n)
                      /\ Len(ret[i].mustCreate) = 6
                      /\ ret[i].offer
                /\ complete =>
                      /\ ret[i].phase = 2
                      /\ {cwd \o ret[i].mustCreate[k] : k \in 1..Len(ret[i].mustCreate)}
                            = ThreeOthers(cwd, n)
                      /\ Len(ret[i].mustCreate) = 3
                      /\ ~ret[i].offer

\* phase two was returned while Application.java does not exist yet
C8_Witness ==
    \E i \in Procs :
        /\ variant = "gen" /\ pc[i] = "done" /\ ret[i].phase = 2
        /\ \A q \in SixDescriptors(cwd, projectName[i]) : existsSync(fs, q)
        /\ \E q \in ThreeOthers(cwd, projectName[i]) : ~existsSync(fs, q)

\* C9: the generator-driven action makes no call that creates, writes or
\* removes, the filesystem stays what it was when the invocation began, and
\* an invocation that follows another on the same filesystem ends with the
\* same items and the same return value.
C9_GeneratorReadOnly ==
    \A i \in Procs :
        variant = "gen" =>
            /\ fs = fs0
            /\ ~HasCall(i, {"mkdir", "write", "rm"})
            /\ (pc[i] = "done" /\ prev[i].has /\ prev[i].sameFs) =>
                  (ret[i] = prev[i].ret /\ ui[i] = prev[i].ui)

\* a second invocation returned the phase-one prompt again
C9_Witness ==
    \E i \in Procs :
        /\ variant = "gen" /\ pc[i] = "done" /\ runs[i] = 2
        /\ prev[i].has /\ prev[i].sameFs
        /\ ret[i].phase = 1 /\ prev[i].ret.phase = 1
        /\ HasCall(i, {"exists"})

\* C10: each validator accepts exactly the well-formed names, and the two
\* validators agree.
C10_ValidatorGrammar ==
    vOut.done =>
        /\ vOut.clone <=> WellFormedName(vIn)
        /\ vOut.gen <=> WellFormedName(vIn)

\* a single letter was accepted
C10_Witness ==
    vOut.done /\ vIn = <<"a">> /\ vOut.clone /\ vOut.gen

\* the text pat occurs in s
Occurs(s, pat) ==
    \E j \in 1..Len(s) : MatchAt(s, j, pat)

\* C11 as stated: when the placeholder sns-demo does not occur in a text,
\* replaceProjectNames returns the text unchanged, and so does the renaming
\* of copyAndReplaceDir.
C11_NoOpWithoutPlaceholder ==
    (rOut.done /\ ~Occurs(Content(rIn), PLACEHOLDER)) =>
        /\ rOut.content = Content(rIn)
        /\ rOut.item = Content(rIn)

\* C11, amended: the renaming of copyAndReplaceDir returns a name without
\* the placeholder unchanged; replaceProjectNames returns a text unchanged
\* when neither the placeholder sns-demo, nor the placeholder namespace
\* com.xiaohongshu.sns.demo, nor the template variable ${projectName} occurs
\* in it.
C11_NoOpWithoutPatterns ==
    rOut.done =>
        /\ ~Occurs(Content(rIn), PLACEHOLDER) => rOut.item = Content(rIn)
        /\ (~Occurs(Content(rIn), PLACEHOLDER) /\ ~Occurs(Content(rIn), PkgOld)
                /\ ~Occurs(Content(rIn), ProjVar)) =>
              rOut.content = Content(rIn)

\* two configuration lines whose value is demo, not the placeholder, came
\* back unchanged
C11_Witness ==
    /\ rOut.done
    /\ rIn.lead = SpringColon /\ rIn.core = OldNameArg /\ rIn.times = 2
    /\ ~Occurs(Content(rIn), PLACEHOLDER)
    /\ rOut.content = Content(rIn) /\ rOut.item = Content(rIn)

\* C12: replaceProjectNames(content, placeholder, target) leaves no
\* occurrence of its second argument in the output (for a target that does
\* not hold it), and it turns prefix-demo-suffix, with the second argument
\* demo and the target zoo, into prefix-zoo-suffix.
C12_CatchAllReplacesSecondArgument ==
    rOut.done =>
        /\ ~Occurs(rIn.name, OldNameArg) => ~Occurs(rOut.content, OldNameArg)
        /\ (Content(rIn) = PrefixDash \o OldNameArg \o DashSuffix /\ rIn.name = Zoo) =>
              rOut.content = PrefixDash \o Zoo \o DashSuffix

\* the content is a labeled declaration (artifactId, name or module) whose
\* value is the placeholder, bare or joined by a dash to a suffix
IsDeclaration(r) ==
    /\ r.lead = <<>> /\ r.open # <<>> /\ r.core = PLACEHOLDER
    /\ r.tail = <<>> \/ Head(r.tail) = "-"

\* the declaration with the target name in the place of the placeholder
ExpectedDeclaration(r) ==
    Repeat(r.open \o r.name \o r.tail \o r.close, r.times)

\* C13: a labeled declaration whose value is the placeholder joined by a
\* dash to a suffix S is rewritten to the same tag with the value T-S, S
\* unchanged and T there once; one whose value is the placeholder becomes
\* the bare T.
C13_StructuralPrecedence ==
    (rOut.done /\ IsDeclaration(rIn)) => rOut.content = ExpectedDeclaration(rIn)

\* the statement of C13 for the targets and suffixes that do not hold the
\* placeholder themselves
C13_PrecedenceForPlainNames ==
    (rOut.done /\ IsDeclaration(rIn) /\ ~Occurs(rIn.name, PLACEHOLDER)
        /\ ~Occurs(rIn.tail, PLACEHOLDER)) =>
        rOut.content = ExpectedDeclaration(rIn)

\* every entry below the template root, whatever its kind
AllTemplateEntries(i) ==
    {rel \in DOMAIN Subtree(fs0, templatePath[i]) : rel # <<>>}

\* the destination holds a rewritten copy of the template entry rel
HasCopy(i, rel) ==
    /\ existsSync(fs, targetPath[i] \o Image(i, rel))
    /\ fs0[templatePath[i] \o rel].kind = "file" =>
          fs[targetPath[i] \o Image(i, rel)]
              = FileNode(replaceProjectNames(fs0[templatePath[i] \o rel].content,
                                             OldNameArg, projectName[i]))

\* C14: an invocation that has returned has said what happened: the cloning
\* action gave the success notice, and then the destination holds a
\* rewritten copy of every entry of the template tree, or the generator
\* action returned its instruction, or an ERROR item was given.
C14_NoSilentFailure ==
    \A i \in Procs :
        (pc[i] = "done" /\ ret[i].type # "threw") =>
            \/ /\ variant = "clone"
               /\ HasItem(i, "success")
               /\ \A rel \in AllTemplateEntries(i) : HasCopy(i, rel)
            \/ /\ variant = "gen"
               /\ ret[i].type = "submit_prompt"
            \/ \E k \in 1..Len(ui[i]) : ui[i][k].type = "ERROR"

\* the statement of C14 for the templates that hold files and directories
\* only, under names that stay distinct
C14_NoSilentFailureOnPlainTrees ==
    \A i \in Procs :
        (pc[i] = "done" /\ ret[i].type # "threw"
            /\ ((variant = "clone" /\ templatePath[i] # <<>>) =>
                  (NamesStayDistinct(i)
                      /\ AllTemplateEntries(i) \subseteq TemplateEntries(i) \cup {<<>>}))) =>
            \/ /\ variant = "clone"
               /\ HasItem(i, "success")
               /\ \A rel \in AllTemplateEntries(i) : HasCopy(i, rel)
            \/ /\ variant = "gen"
               /\ ret[i].type = "submit_prompt"
            \/ \E k \in 1..Len(ui[i]) : ui[i][k].type = "ERROR"

\* some candidate of the Template Locator exists as the invocation begins
TemplateFound ==
    \E k \in 1..Len(possiblePaths(cwd)) : existsSync(fs0, possiblePaths(cwd)[k])

\* the ERROR items given so far
Errors(i) ==
    SelectSeq(ui[i], LAMBDA item : item.type = "ERROR")

\* C15: the cloning action tries validate, locate, check destination and
\* clone in this order and stops at the first that applies: an invalid name
\* gives the validation error alone, a missing template the configuration
\* error alone (naming the path looked for), an existing destination the
\* collision error alone; the clone starts only when the three checks pass,
\* and no invocation gives more than one ERROR item.
C15_BranchOrder ==
    \A i \in Procs :
        variant = "clone" =>
            LET n == Trim(args[i])
                dest == existsSync(fs0, Join(cwd, n))
            IN  /\ Len(Errors(i)) <= 1
                /\ (HasItem(i, "start") \/ HasCall(i, {"mkdir", "readdir", "write"})) =>
                      (WellFormedName(n) /\ TemplateFound /\ ~dest)
                /\ (pc[i] = "done" /\ ~WellFormedName(n)) =>
                      ui[i] = <<Item("ERROR", "invalidName", "", <<>>)>>
                /\ (pc[i] = "done" /\ WellFormedName(n) /\ existsSync(fs0, cwd)
                        /\ ~TemplateFound) =>
                      ui[i] = <<Item("ERROR", "templateMissing", "", Join(cwd, PLACEHOLDER))>>
                /\ (pc[i] = "done" /\ WellFormedName(n) /\ TemplateFound /\ dest) =>
                      ui[i] = <<Item("ERROR", "targetExists", "", Join(cwd, n))>>

\* the template is missing and the destination exists: the configuration
\* error was the only item
C15_Witness ==
    \E i \in Procs :
        /\ variant = "clone" /\ pc[i] = "done"
        /\ WellFormedName(Trim(args[i]))
        /\ ~TemplateFound
        /\ existsSync(fs0, Join(cwd, Trim(args[i])))
        /\ ui[i] = <<Item("ERROR", "templateMissing", "", Join(cwd, PLACEHOLDER))>>

\* the positions of the candidates that exist as the invocation begins
Hits ==
    {k \in 1..Len(possiblePaths(cwd)) : existsSync(fs0, possiblePaths(cwd)[k])}

\* C16: the path the Template Locator returned is a candidate that exists
\* with no candidate before it in the list existing, or, when no candidate
\* exists, <cwd>/sns-demo, which the action then reports as the
\* configuration error; the locator has made existence checks only and has
\* changed nothing.
C16_FirstExistingCandidate ==
    \A i \in Procs :
        (variant = "clone" /\ templatePath[i] # <<>>) =>
            /\ Hits # {} =>
                  \E k \in Hits : /\ templatePath[i] = possiblePaths(cwd)[k]
                                  /\ \A j \in Hits : k <= j
            /\ Hits = {} =>
                  /\ templatePath[i] = Join(cwd, PLACEHOLDER)
                  /\ pc[i] \in {"checkTemplate", "done"}
                  /\ pc[i] = "done" =>
                        ui[i] = <<Item("ERROR", "templateMissing", "", Join(cwd, PLACEHOLDER))>>
            /\ pc[i] = "checkTemplate" =>
                  /\ fs = fs0
                  /\ log[i] # <<>>
                  /\ \A k \in 1..Len(log[i]) : log[i][k].op = "exists"

\* two candidates exist, and the locator returned the one that comes first
C16_Witness ==
    \E i \in Procs :
        /\ variant = "clone" /\ pc[i] = "checkTemplate"
        /\ Cardinality(Hits) = 2
        /\ templatePath[i] = possiblePaths(cwd)[1]
        /\ existsSync(fs, possiblePaths(cwd)[3])

\* two marks that occur in no content, no pattern and no name: they stand
\* for the target name and for the collapsed name while the rules run
MarkName ==
    <<"#">>
MarkClean ==
    <<"%">>

\* the pipeline with every inserted name kept out of the later rules' sight:
\* the rules insert the marks, and the names take their place at the end
ProtectedRewrite(content, newName) ==
    LET s1 == ReplaceLit(content, PkgOld, PkgPrefix \o MarkClean)
        s11 == Rule11(Rule10(Rule9(Rule8(Rule7(Rule6(Rule5(Rule4(Rule3(Rule2(
                   s1, MarkName), MarkName), MarkName), MarkName), MarkName), MarkName),
                   MarkName), MarkName), MarkName), MarkName)
    IN  ReplaceLit(ReplaceLit(s11, MarkClean, CleanName(newName)), MarkName, newName)

\* C17: no rule of the pipeline matches text that an earlier rule inserted,
\* so the output is what the rules give when each inserted name is out of
\* the later rules' reach: the target name is there once for each
\* occurrence rewritten.
C17_NoRuleRetriggered ==
    rOut.done => rOut.content = ProtectedRewrite(Content(rIn), rIn.name)

\* the statement of C17 for the target names that do not hold the placeholder
C17_NoRetriggerForPlainNames ==
    (rOut.done /\ ~Occurs(rIn.name, PLACEHOLDER)) =>
        rOut.content = ProtectedRewrite(Content(rIn), rIn.name)

\* the steps of the Tree Cloner and of what follows it
ClonePhases ==
    {"dirMkdir", "dirRead", "loop", "fileMkdir", "fileRead", "fileWrite",
     "success", "catch", "report"}

\* C18: in the cloning action the start notice comes before the first call
\* that creates, writes or removes; while the Tree Cloner runs it is the
\* only item; and when the action has ended exactly one more item follows
\* it: the success notice if the Tree Cloner completed, the failure ERROR if
\* it threw. The two are never both given, and the success notice is never
\* given after a step has failed.
C18_OrderOfEvents ==
    \A i \in Procs :
        variant = "clone" =>
            LET start == Item("INFO", "start", "", <<projectName[i]>>)
            IN  /\ HasCall(i, {"mkdir", "write", "rm"}) => (ui[i] # <<>> /\ ui[i][1] = start)
                /\ pc[i] \in ClonePhases => ui[i] = <<start>>
                /\ ~(HasItem(i, "success") /\ HasItem(i, "createFailed"))
                /\ HasItem(i, "success") => error[i] = NoError
                /\ (pc[i] = "done" /\ HasItem(i, "start")) =>
                      /\ Len(ui[i]) = 2
                      /\ ui[i][1] = start
                      /\ error[i] = NoError =>
                            ui[i][2] = Item("INFO", "success", "", targetPath[i])
                      /\ error[i] # NoError =>
                            ui[i][2] = Item("ERROR", "createFailed", error[i].op, error[i].path)

\* a write failed after a directory had been created: the start notice, then
\* the failure ERROR, and nothing else
C18_Witness ==
    \E i \in Procs :
        /\ variant = "clone" /\ pc[i] = "done"
        /\ HasCall(i, {"mkdir"})
        /\ error[i].op = "write"
        /\ Len(ui[i]) = 2
        /\ ui[i][1].text = "start" /\ ui[i][2].text = "createFailed"

\* a text that can be the name of a file or of a directory
IsEntryName(s) ==
    /\ s # <<>>
    /\ \A k \in 1..Len(s) : s[k] \notin {"/", "\n"}

\* C19: for every entry name, the renaming of copyAndReplaceDir gives what
\* replaceProjectNames gives for the same text.
C19_NameRewriteIsTokenRewrite ==
    (rOut.done /\ IsEntryName(Content(rIn))) => rOut.item = rOut.content

\* the statement of C19 for the names that hold neither the placeholder
\* namespace nor a configuration key
C19_SameForUndecoratedNames ==
    (rOut.done /\ IsEntryName(Content(rIn))
        /\ ~Occurs(Content(rIn), PkgOld)
        /\ ~Occurs(Content(rIn), SpringEq) /\ ~Occurs(Content(rIn), SpringColon)) =>
        rOut.item = rOut.content

\* the name without its hyphens
Collapsed(n) ==
    SelectSeq(n, LAMBDA c : c # "-")

TouchesDestination(i) ==
    {k \in 1..Len(log[i]) :
        /\ log[i][k].op \in {"mkdir", "write", "rm"}
        /\ Under(log[i][k].path, Join(cwd, Trim(args[i])))
        /\ log[i][k] # Call(error[i].op, error[i].path)}

\* the invocation i created the destination directory: its fs.mkdirSync of
\* the destination was called and did not throw
CreatedDestination(i) ==
    /\ \E k \in 1..Len(log[i]) : log[i][k] = Call("mkdir", Join(cwd, Trim(args[i])))
    /\ error[i] # [op |-> "mkdir", path |-> Join(cwd, Trim(args[i]))]

\* C21: of two invocations with the same project name, whatever the order
\* of their steps, each writes to and removes only a destination it created
\* itself, none writes into or removes the destination the other created,
\* and at most one gives the success notice.
C21_ExclusiveOwnership ==
    \A i \in Pair :
        /\ TouchesDestination(i) # {} => CreatedDestination(i)
        /\ \A j \in Pair \ {i} :
              /\ CreatedDestination(j) => TouchesDestination(i) = {}
              /\ ~(HasItem(i, "success") /\ HasItem(j, "success"))

\* the positions in the log of the calls of fs.statSync: the loop of
\* copyAndReplaceDir makes one for each entry it visits
Visits(i) ==
    {k \in 1..Len(log[i]) : log[i][k].op = "stat"}

\* the paths of the template entries as the invocation began
TemplatePaths(i) ==
    {templatePath[i] \o rel : rel \in AllTemplateEntries(i)}

\* C22: wherever the destination lies, copyAndReplaceDir visits template
\* entries only, each once and, when the clone succeeds, all of them; it
\* reads nothing at or below the destination, which the clone itself
\* created; and the action ends with the success notice or the failure
\* ERROR.
C22_EachEntryOnce ==
    \A i \in Procs :
        (variant = "clone" /\ targetPath[i] # <<>>) =>
            /\ \A k \in Visits(i) : log[i][k].path \in TemplatePaths(i)
            /\ \A k, m \in Visits(i) : log[i][k].path = log[i][m].path => k = m
            /\ \A k \in 1..Len(log[i]) :
                  log[i][k].op \in {"readdir", "stat", "read"} =>
                      ~Under(log[i][k].path, targetPath[i])
            /\ HasItem(i, "success") =>
                  {log[i][k].path : k \in Visits(i)} = TemplatePaths(i)
            /\ (pc[i] = "done" /\ HasItem(i, "start")) =>
                  (HasItem(i, "success") \/ HasItem(i, "createFailed"))

\* the statement of C22 for the destinations outside the template root
C22_EachEntryOnceWhenOutside ==
    \A i \in Procs :
        (variant = "clone" /\ targetPath[i] # <<>>
            /\ ~Under(targetPath[i], templatePath[i])) =>
            /\ \A k \in Visits(i) : log[i][k].path \in TemplatePaths(i)
            /\ \A k, m \in Visits(i) : log[i][k].path = log[i][m].path => k = m
            /\ \A k \in 1..Len(log[i]) :
                  log[i][k].op \in {"readdir", "stat", "read"} =>
                      ~Under(log[i][k].path, targetPath[i])
            /\ HasItem(i, "success") =>
                  {log[i][k].path : k \in Visits(i)} = TemplatePaths(i)
            /\ (pc[i] = "done" /\ HasItem(i, "start")) =>
                  (HasItem(i, "success") \/ HasItem(i, "createFailed"))
====
